---------------------------- MODULE Spec2Model ----------------------------
(***************************************************************************)
(* Task scheduling core of the rCore teaching kernel.                      *)
(*                                                                         *)
(* Two scheduler designs live in the repository and are modelled side by   *)
(* side; `policy` says which one a behaviour runs:                         *)
(*   "rr"     - os/src/task/mod.rs: TaskManager, round robin over the task *)
(*              table, entered through run_first_task;                     *)
(*   "stride" - os/src/task/processor.rs: Processor, the run_tasks idle    *)
(*              loop with stride accounting.                               *)
(* fetch_task, the Processor design's suspend/exit wrappers, the TCB       *)
(* constructor and BIG_STRIDE are not among the source files; they are     *)
(* modelled from spec.md (sections 3, 4.1, 4.2, 4.3).                      *)
(***************************************************************************)
EXTENDS Integers, FiniteSets, Sequences, TLC

VARIABLES
    policy,         \* "rr" | "stride": which scheduler design is configured
    pc,             \* control position: "boot", "task", "idle", "halt", "find", "found"
    task_status,    \* TaskControlBlock.task_status, per task
    current_task,   \* TaskManagerInner.current_task
    current,        \* Processor.current (None when the cell is empty)
    stride,         \* TaskControlBlockInner.stride, per task
    prior,          \* TaskControlBlockInner.prior, per task
    start_time,     \* TaskControlBlock.start_time, per task (-1: unset)
    now,            \* the clock read by get_time_ms()
    warn_cnt,       \* number of "no tasks available in run_tasks" warnings logged
    sched_cnt,      \* history: times run_tasks granted each task a quantum
    prio_changed,   \* history: curr_set_priority changed the task's priority
    picked,         \* history: the task most recently selected by a scheduler
    picked_status,  \* history: that task's status at the moment it was selected
    found,          \* result cell of a find_next_task application
    bad_prio_seen,  \* history: curr_set_priority was called with a value below 2
    borrowed,       \* UPSafeCell / TCB cells whose exclusive borrow is alive
    syscall_times,  \* TaskControlBlock.syscall_times, per task and tracked index
    info,           \* the TaskInfo last written by get_current_info
    taken,          \* the task a caller of take_current_task holds
    observed,       \* what the last current_task / take_current_task call returned
    memory_set,     \* TaskControlBlock.memory_set, per task: its map areas
    call,           \* history: the last accessor call and its arguments
    ncalls,         \* history: number of accessor calls made
    ret,            \* the value the last accessor call returned
    dirents,        \* the directory's entries, in slot order: <<name, inode_id>>
    link_cnt,       \* DiskInode.link_cnt, per file inode
    inode_alloc,    \* the file inodes allocated in the inode bitmap
    data_blocks     \* number of data blocks each file inode holds

vars == <<policy, pc, task_status, current_task, current, stride, prior,
          start_time, now, warn_cnt, sched_cnt, prio_changed, picked,
          picked_status, found, bad_prio_seen, borrowed, syscall_times, info,
          taken, observed, memory_set, call, ncalls, ret, dirents, link_cnt,
          inode_alloc, data_blocks>>

\* the state of the file system
fs_vars == <<dirents, link_cnt, inode_alloc, data_blocks>>

\* what the scheduler operations leave alone
acct_vars == <<syscall_times, info, taken, observed, memory_set, call, ncalls, ret,
               fs_vars>>

---------------------------------------------------------------------------
(* Bounds of the model *)

\* number of applications loaded (get_num_app())
NumApp == 3
\* scheduling rounds run_tasks may grant in one behaviour
MaxRounds == 4
\* largest clock value
MaxTime == 1
\* warnings the exhausted run_tasks loop may log in one behaviour
MaxWarn == 2
\* scheduling rounds of the three-task priority scenario
ScenarioRounds == 6
\* accessor calls (syscall accounting, info queries, mmap) per behaviour
MaxCalls == 2
\* direct accesses to the current-task cell per behaviour
MaxCellCalls == 3
\* scheduling rounds when accessor calls are explored
AccRounds == 2
\* scheduling rounds when every request of a running task is explored
StrideRounds == 4
\* mmap / munmap calls per behaviour
MaxMemCalls == 2
\* file inodes the inode bitmap can hand out
MaxInodes == 2
\* create / linkat / unlinkat / write_at calls per behaviour
MaxFsCalls == 5

(* Program constants *)

\* config::BIG_STRIDE
BIG_STRIDE == 65535
\* TaskControlBlock::new: the default priority
DEFAULT_PRIORITY == 16
\* the modulus of `isize as usize`; 2^64 in the kernel, 2^30 here
\* (the model checker's integers are 32 bits wide)
USIZE_MOD == 1073741824
\* the modulus of `as u32` / `as i32`; 2^32 in the kernel, 2^30 here
U32_MOD == 1073741824

Tasks == 0 .. (NumApp - 1)
None == 0 - 1
UNSET == 0 - 1
Status == {"UnInit", "Ready", "Running", "Exited"}
\* values a task may pass to set_priority
PrioArgs == {0 - 1, 0, 2, 4}
\* legal values on both sides of BIG_STRIDE
WidePrioArgs == {2, BIG_STRIDE + 1}

---------------------------------------------------------------------------
(* Pure helpers *)

\* `prio as usize`
AsUsize(prio) == IF prio < 0 THEN USIZE_MOD + prio ELSE prio

\* the scan of find_next_task: positions current+1 .. current+num_app, mod num_app
RECURSIVE FindFrom(_, _, _)
FindFrom(st, cur, k) ==
    IF k > NumApp THEN None
    ELSE IF st[(cur + k) % NumApp] = "Ready" THEN (cur + k) % NumApp
    ELSE FindFrom(st, cur, k + 1)

\* faulty variants of the scan, used to test the properties below
find_next_task_unfiltered(st, cur) == (cur + 1) % NumApp

RECURSIVE FindNotRunningFrom(_, _, _)
FindNotRunningFrom(st, cur, k) ==
    IF k > NumApp THEN None
    ELSE IF st[(cur + k) % NumApp] # "Running" THEN (cur + k) % NumApp
    ELSE FindNotRunningFrom(st, cur, k + 1)

find_next_task_not_running(st, cur) == FindNotRunningFrom(st, cur, 1)

RECURSIVE FindFromCurrent(_, _, _)
FindFromCurrent(st, cur, k) ==
    IF k >= NumApp THEN None
    ELSE IF st[(cur + k) % NumApp] = "Ready" THEN (cur + k) % NumApp
    ELSE FindFromCurrent(st, cur, k + 1)

find_next_task_from_current(st, cur) == FindFromCurrent(st, cur, 0)

\* faulty variant: the scan skips the position after the current one while
\* any other position is Ready
RECURSIVE FindSkippingFrom(_, _, _)
FindSkippingFrom(st, cur, k) ==
    IF k > NumApp THEN (IF st[(cur + 1) % NumApp] = "Ready"
                        THEN (cur + 1) % NumApp ELSE None)
    ELSE IF st[(cur + k) % NumApp] = "Ready" THEN (cur + k) % NumApp
    ELSE FindSkippingFrom(st, cur, k + 1)

find_next_task_skipping(st, cur) == FindSkippingFrom(st, cur, 2)

\* faulty variant: the scan starts at the head of the table
find_next_task_lowest(st, cur) == FindFrom(st, NumApp - 1, 1)

find_next_task(st, cur) == FindFrom(st, cur, 1)

\* fetch_task: scan of the task table for the Ready task of least stride,
\* keeping the earlier position on a tie
RECURSIVE FetchFrom(_, _, _, _)
FetchFrom(st, sd, i, best) ==
    IF i >= NumApp THEN best
    ELSE IF st[i] = "Ready" /\ (best = None \/ sd[i] < sd[best])
         THEN FetchFrom(st, sd, i + 1, i)
         ELSE FetchFrom(st, sd, i + 1, best)

\* faulty variant: `<=` lets a later position win a tie
RECURSIVE FetchLastFrom(_, _, _, _)
FetchLastFrom(st, sd, i, best) ==
    IF i >= NumApp THEN best
    ELSE IF st[i] = "Ready" /\ (best = None \/ sd[i] <= sd[best])
         THEN FetchLastFrom(st, sd, i + 1, i)
         ELSE FetchLastFrom(st, sd, i + 1, best)

fetch_task_last_wins(st, sd) == FetchLastFrom(st, sd, 0, None)

fetch_task(st, sd) == FetchFrom(st, sd, 0, None)

\* faulty variants of the stride update
StrideAfter_assign(s, p) == BIG_STRIDE \div p
StrideAfter_nodiv(s, p) == s + BIG_STRIDE
StrideAfter_prio(s, p) == s + p

\* `task_inner.stride += BIG_STRIDE / task_inner.prior`, in usize arithmetic
StrideAfter(s, p) == (s + (BIG_STRIDE \div p)) % USIZE_MOD

\* faulty variant: the status write is lost
mark_current_suspended_lost(st, cur) == st

\* faulty variant: the write also revives the tasks that have exited
mark_current_suspended_revive(st, cur) ==
    [i \in Tasks |-> IF i = cur \/ st[i] = "Exited" THEN "Ready" ELSE st[i]]

mark_current_suspended(st, cur) == [st EXCEPT ![cur] = "Ready"]

\* faulty variant: the status write is lost
mark_current_exited_lost(st, cur) == st

mark_current_exited(st, cur) == [st EXCEPT ![cur] = "Exited"]

\* faulty variant: the stamp is written at every Running transition
StampStart_always(stt, t) == [stt EXCEPT ![t] = now]

\* `if start_time == -1 { start_time = get_time_ms() }`
StampStart(stt, t) == IF stt[t] = UNSET THEN [stt EXCEPT ![t] = now] ELSE stt

\* syscall::SYSCALL_TONG: the ids whose calls are counted
\* (write, exit, yield)
SYSCALL_TONG == <<64, 93, 124>>
\* ids a task may trap with; 7 is not in the table
SyscallArgs == {64, 124, 7}
\* position of `id` in the table (0 stands for `None`)
RECURSIVE FindIndexFrom(_, _)
FindIndexFrom(id, k) ==
    IF k > Len(SYSCALL_TONG) THEN 0
    ELSE IF SYSCALL_TONG[k] = id THEN k
    ELSE FindIndexFrom(id, k + 1)

\* faulty variant: every id is counted in the first slot
SyscallIndex_first(id) == 1

\* faulty variant: the cell keeps its content (cloning semantics)
take_current_clone(cell) == <<cell, cell>>

SyscallIndex(id) == FindIndexFrom(id, 1)

\* Processor::take_current: <<the value returned, the cell afterwards>>
take_current(cell) == <<cell, None>>

\* faulty variant: restore_current_task is never called
restored_cell_empty(cell) == take_current(cell)[2]

\* the cell after `let t = take_current_task().unwrap(); ...;
\* restore_current_task(t.clone())`
restored_cell(cell) == take_current(cell)[1]

\* `a - b` on usize, as a build without overflow checks computes it
WrappingSub(a, b) == (a - b + USIZE_MOD) % USIZE_MOD

\* the syscall_times array of a TaskInfo, by syscall id
InfoSyscallTimes(cnts) ==
    [id \in {SYSCALL_TONG[k] : k \in 1 .. Len(SYSCALL_TONG)} |->
        cnts[FindIndexFrom(id, 1)]]

\* the TaskInfo cell before any query wrote it
NoInfo == <<"none">>
\* `observed` before any observation
UNREAD == 0 - 2

\* config::PAGE_SIZE
PAGE_SIZE == 4096
\* MapPermission::U
PERM_U == 16
\* arguments a task may pass to mmap / munmap
StartArgs == {0, PAGE_SIZE, PAGE_SIZE + 1, 2 * PAGE_SIZE}
LenArgs == {0, PAGE_SIZE, PAGE_SIZE + 1}
PortArgs == {0, 3, 9}
\* pages the arguments above can touch
Pages == 0 .. 4

\* VirtAddr::aligned, VirtAddr::floor, VirtAddr::ceil
va_aligned(va) == va % PAGE_SIZE = 0
va_floor(va) == va \div PAGE_SIZE
va_ceil(va) == (va + PAGE_SIZE - 1) \div PAGE_SIZE

\* a map area is <<first page, end page (exclusive), permission>>
\* MemorySet::vpn_ismap
vpn_ismap(ms, vpn) == \E a \in ms : a[1] <= vpn /\ vpn < a[2]

\* MemorySet::insert_framed_area
insert_framed_area(ms, start_va, end_va, permission) ==
    ms \cup {<<va_floor(start_va), va_ceil(end_va), permission>>}

\* MemorySet::remove_area_with_start_vpn: <<the areas left, the result>>
remove_area_with_start_vpn(ms, start_vpn) ==
    IF \E a \in ms : a[1] = start_vpn
    THEN <<{a \in ms : a[1] # start_vpn}, 0>>
    ELSE <<ms, 0 - 1>>

\* `(port & !0x7) != 0` and `(port & 0x7) == 0`
port_illegal_bits(port) == (port \div 8) # 0
port_no_access(port) == (port % 8) = 0
\* `port <<= 1`, then `| MapPermission::U`
port_permission(port) == ((port * 2) % 256) + PERM_U

\* faulty variants of the range checks: only the first page is examined
curr_vpnrange_exist_map_first(ms, start, end) == vpn_ismap(ms, start)
curr_vpnrange_exist_unmap_first(ms, start, end) == ~vpn_ismap(ms, start)

\* TaskManager::curr_vpnrange_exist_map on the current task's memory set
curr_vpnrange_exist_map(ms, start, end) ==
    \E vpn \in start .. (end - 1) : vpn_ismap(ms, vpn)

\* TaskManager::curr_vpnrange_exist_unmap on the current task's memory set
curr_vpnrange_exist_unmap(ms, start, end) ==
    \E vpn \in start .. (end - 1) : ~vpn_ismap(ms, vpn)

\* the address space a task starts with: its image, on page 0
InitMemorySet == {<<0, 1, 26>>}

(* The directory of easy-fs: a sequence of entries <<name, inode_id>> *)

\* the file inodes of the disk (inode 0 is the root directory)
InodeIds == 1 .. MaxInodes
\* the name remove_dirent leaves in a removed slot
REMOVED_NAME == "has been removed"
\* names a caller may pass
FileNames == {"a", "b", REMOVED_NAME}
\* Option::None of find_inode_id
NoEntry == 0 - 2

\* `x as u32` and `x as i32`
AsU32(x) == x % U32_MOD
AsI32(u) == IF u >= U32_MOD \div 2 THEN u - U32_MOD ELSE u

\* DirEntry::new(name, inode_id)
DirEntry_new(name, inode_id) == <<name, inode_id>>
\* DirEntry::name() and DirEntry::inode_id()
DirEntry_name(dirent) == dirent[1]
DirEntry_inode_id(dirent) == dirent[2]
\* DirEntry::is_valid(): the entry was not removed
is_valid(dirent) == DirEntry_inode_id(dirent) # 0 - 1

\* the file system a directory operation works on
FsState == [dirents |-> dirents, link_cnt |-> link_cnt,
            inode_alloc |-> inode_alloc, data_blocks |-> data_blocks]

increase_link_none(cnt, id) == cnt

\* Inode::increase_link on inode id
increase_link(cnt, id) == [cnt EXCEPT ![id] = @ + 1]

\* Inode::decrease_link on inode id: the last link gives back the data
\* blocks and then the inode
decrease_link(fs, id) ==
    LET cnt == fs.link_cnt[id] - 1
    IN  [fs EXCEPT !.link_cnt = [@ EXCEPT ![id] = cnt],
                   !.data_blocks = IF cnt = 0 THEN [@ EXCEPT ![id] = 0] ELSE @,
                   !.inode_alloc = IF cnt = 0 THEN @ \ {id} ELSE @]

\* the first slot at or after i whose name is `name`, 0 when there is none
RECURSIVE FindNameFrom(_, _, _)
FindNameFrom(ds, name, i) ==
    IF i > Len(ds) THEN 0
    ELSE IF DirEntry_name(ds[i]) = name THEN i
    ELSE FindNameFrom(ds, name, i + 1)

\* Inode::find_inode_id(name): every slot is compared, removed or not
find_inode_id(ds, name) ==
    LET i == FindNameFrom(ds, name, 1)
    IN  IF i = 0 THEN NoEntry ELSE AsU32(DirEntry_inode_id(ds[i]))

\* the first removed slot at or after i, 0 when there is none
RECURSIVE FirstInvalidFrom(_, _)
FirstInvalidFrom(ds, i) ==
    IF i > Len(ds) THEN 0
    ELSE IF ~is_valid(ds[i]) THEN i
    ELSE FirstInvalidFrom(ds, i + 1)

\* the first valid slot at or after i whose name is `name`, 0 when none
RECURSIVE FindValidFrom(_, _, _)
FindValidFrom(ds, name, i) ==
    IF i > Len(ds) THEN 0
    ELSE IF is_valid(ds[i]) /\ DirEntry_name(ds[i]) = name THEN i
    ELSE FindValidFrom(ds, name, i + 1)

\* Inode::append_dirent(name, inode_id): the entry goes into the first
\* removed slot, or to the end of the directory; then the inode gains a link
append_dirent(fs, name, inode_id) ==
    LET i == FirstInvalidFrom(fs.dirents, 1)
        new_dirent == DirEntry_new(name, inode_id)
    IN  [fs EXCEPT !.dirents = IF i # 0 THEN [@ EXCEPT ![i] = new_dirent]
                               ELSE Append(@, new_dirent),
                   !.link_cnt = increase_link(@, inode_id)]

\* Inode::remove_dirent(dirent_idx): the slot is overwritten, then the
\* inode it named loses a link
remove_dirent(fs, dirent_idx) ==
    LET illegal_dirent == DirEntry_new(REMOVED_NAME, 0 - 1)
        inode_id == DirEntry_inode_id(fs.dirents[dirent_idx])
    IN  decrease_link([fs EXCEPT !.dirents =
                           [@ EXCEPT ![dirent_idx] = illegal_dirent]],
                      inode_id)

\* EasyFileSystem::alloc_inode: the lowest free inode
alloc_inode(fs) ==
    CHOOSE id \in InodeIds \ fs.inode_alloc :
        \A other \in InodeIds \ fs.inode_alloc : id <= other

\* DiskInode::initialize(_, DiskInodeType::File): an empty file, no link
initialize(fs, id) ==
    [fs EXCEPT !.inode_alloc = @ \cup {id},
               !.link_cnt = [@ EXCEPT ![id] = 0],
               !.data_blocks = [@ EXCEPT ![id] = 0]]

RECURSIVE SumTo(_, _)
SumTo(f, n) == IF n < 0 THEN 0 ELSE f[n] + SumTo(f, n - 1)
\* total number of quanta granted so far
Rounds == SumTo(sched_cnt, NumApp - 1)

---------------------------------------------------------------------------
(* Exclusive borrows.  A handler is read as the sequence of its borrow     *)
(* events up to the point where it returns or calls __switch: "acquire"    *)
(* is an exclusive_access() / inner_exclusive_access() call, "release" is  *)
(* the drop of that guard (explicit, or the end of its scope).             *)

TASK_MANAGER == <<"TASK_MANAGER", 0>>
PROCESSOR == <<"PROCESSOR", 0>>
TCB(i) == <<"TCB", i>>
Cells == {TASK_MANAGER, PROCESSOR} \cup {TCB(i) : i \in Tasks}

Acquire(c) == <<"acquire", c>>
Release(c) == <<"release", c>>

\* the borrows alive after the events `ev`, starting from the set `held`
RECURSIVE HeldFrom(_, _, _)
HeldFrom(ev, k, held) ==
    IF k > Len(ev) THEN held
    ELSE IF ev[k][1] = "acquire" THEN HeldFrom(ev, k + 1, held \cup {ev[k][2]})
    ELSE HeldFrom(ev, k + 1, held \ {ev[k][2]})

Held(ev) == HeldFrom(ev, 1, borrowed)

\* faulty variant: the guard is still alive at __switch (no drop(inner))
run_next_task_borrows_nodrop(next) ==
    <<Acquire(TASK_MANAGER), Release(TASK_MANAGER), Acquire(TASK_MANAGER)>>

\* faulty variant: the TCB guard outlives the loop body (no drop(task_inner))
run_tasks_borrows_nodrop(task) ==
    IF task # None
    THEN <<Acquire(PROCESSOR), Acquire(TCB(task)), Release(PROCESSOR)>>
    ELSE <<Acquire(PROCESSOR), Release(PROCESSOR)>>

\* run_first_task up to __switch
run_first_task_borrows ==
    <<Acquire(TASK_MANAGER), Release(TASK_MANAGER)>>

\* mark_current_suspended / mark_current_exited
mark_current_borrows ==
    <<Acquire(TASK_MANAGER), Release(TASK_MANAGER)>>

\* find_next_task
find_next_task_borrows ==
    <<Acquire(TASK_MANAGER), Release(TASK_MANAGER)>>

\* run_next_task up to __switch or the panic: find_next_task, then the
\* guard of the `if let Some(next)` branch, dropped before __switch
run_next_task_borrows(next) ==
    IF next # None
    THEN <<Acquire(TASK_MANAGER), Release(TASK_MANAGER),
           Acquire(TASK_MANAGER), Release(TASK_MANAGER)>>
    ELSE <<Acquire(TASK_MANAGER), Release(TASK_MANAGER)>>

\* one iteration of run_tasks up to __switch, or to the end of the iteration
run_tasks_borrows(task) ==
    IF task # None
    THEN <<Acquire(PROCESSOR), Acquire(TCB(task)), Release(TCB(task)),
           Release(PROCESSOR)>>
    ELSE <<Acquire(PROCESSOR), Release(PROCESSOR)>>

\* schedule up to __switch
schedule_borrows ==
    <<Acquire(PROCESSOR), Release(PROCESSOR)>>

\* the TaskManager accessors: one guard, released at return
manager_access_borrows ==
    <<Acquire(TASK_MANAGER), Release(TASK_MANAGER)>>

\* get_current_info of the Processor design: current_task(), then the TCB
get_info_borrows(task) ==
    <<Acquire(PROCESSOR), Release(PROCESSOR), Acquire(TCB(task)),
      Release(TCB(task))>>

\* take_current_task, restore_current_task, current_task
processor_access_borrows ==
    <<Acquire(PROCESSOR), Release(PROCESSOR)>>

\* curr_set_priority, add_current_syscall_cnt, curr_mmap of the Processor
\* design: take, borrow the TCB, restore, return
take_restore_borrows(task) ==
    <<Acquire(PROCESSOR), Release(PROCESSOR), Acquire(TCB(task)),
      Acquire(PROCESSOR), Release(PROCESSOR), Release(TCB(task))>>

---------------------------------------------------------------------------
(* Initial states *)

\* a freshly made file system: an empty root directory and no file inode
InitFs ==
    /\ dirents = <<>>
    /\ link_cnt = [i \in InodeIds |-> 0]
    /\ inode_alloc = {}
    /\ data_blocks = [i \in InodeIds |-> 0]

InitAcct ==
    /\ syscall_times = [i \in Tasks |-> [k \in 1 .. Len(SYSCALL_TONG) |-> 0]]
    /\ info = NoInfo
    /\ taken = None
    /\ observed = UNREAD
    /\ memory_set = [i \in Tasks |-> InitMemorySet]
    /\ call = <<"none">>
    /\ ncalls = 0
    /\ ret = 0
    /\ InitFs

InitTasks ==
    /\ task_status = [i \in Tasks |-> "Ready"]
    /\ current_task = 0
    /\ current = None
    /\ stride = [i \in Tasks |-> 0]
    /\ prior = [i \in Tasks |-> DEFAULT_PRIORITY]
    /\ start_time = [i \in Tasks |-> UNSET]
    /\ now = 0
    /\ warn_cnt = 0
    /\ sched_cnt = [i \in Tasks |-> 0]
    /\ prio_changed = [i \in Tasks |-> FALSE]
    /\ picked = None
    /\ picked_status = "none"
    /\ found = None
    /\ bad_prio_seen = FALSE
    /\ borrowed = {}
    /\ InitAcct

Init ==
    /\ policy \in {"rr", "stride"}
    /\ pc = "boot"
    /\ InitTasks

---------------------------------------------------------------------------
(* TaskManager (round robin) *)

run_first_task ==
    /\ policy = "rr"
    /\ pc = "boot"
    /\ task_status' = [task_status EXCEPT ![0] = "Running"]
    /\ IF start_time[0] = UNSET
       THEN /\ start_time' = [start_time EXCEPT ![0] = now]
            /\ pc' = "task"
       ELSE /\ start_time' = start_time
            /\ pc' = "halt"
    /\ picked' = 0
    /\ picked_status' = task_status[0]
    /\ borrowed' = Held(run_first_task_borrows)
    /\ UNCHANGED <<policy, current_task, current, stride, prior, now, warn_cnt,
                   sched_cnt, prio_changed, found, bad_prio_seen>>
    /\ UNCHANGED acct_vars

\* run_next_task on the task table `st` left by the caller's mark_current_*
run_next_task(st) ==
    LET next == find_next_task(st, current_task) IN
    /\ IF next # None
       THEN /\ task_status' = [st EXCEPT ![next] = "Running"]
            /\ start_time' = StampStart(start_time, next)
            /\ current_task' = next
            /\ picked' = next
            /\ picked_status' = st[next]
            /\ pc' = "task"
       ELSE /\ task_status' = st
            /\ pc' = "halt"
            /\ UNCHANGED <<start_time, current_task, picked, picked_status>>
    /\ borrowed' = Held(mark_current_borrows \o run_next_task_borrows(next))

suspend_current_and_run_next ==
    /\ policy = "rr"
    /\ pc = "task"
    /\ run_next_task(mark_current_suspended(task_status, current_task))
    /\ UNCHANGED <<policy, current, stride, prior, now, warn_cnt, sched_cnt,
                   prio_changed, found, bad_prio_seen>>
    /\ UNCHANGED acct_vars

exit_current_and_run_next ==
    /\ policy = "rr"
    /\ pc = "task"
    /\ run_next_task(mark_current_exited(task_status, current_task))
    /\ UNCHANGED <<policy, current, stride, prior, now, warn_cnt, sched_cnt,
                   prio_changed, found, bad_prio_seen>>
    /\ UNCHANGED acct_vars

---------------------------------------------------------------------------
(* Processor (stride) *)

\* one iteration of the run_tasks loop, at most `limit` quanta per behaviour
RunTasksLoop(limit) ==
    /\ policy = "stride"
    /\ pc \in {"boot", "idle"}
    /\ LET task == fetch_task(task_status, stride) IN
       IF task # None
       THEN /\ Rounds < limit
            /\ task_status' = [task_status EXCEPT ![task] = "Running"]
            /\ start_time' = StampStart(start_time, task)
            /\ picked' = task
            /\ picked_status' = task_status[task]
            /\ IF prior[task] = 0
               THEN \* BIG_STRIDE / 0: the kernel panics inside the loop body,
                    \* both guards alive
                    /\ pc' = "halt"
                    /\ borrowed' = Held(<<Acquire(PROCESSOR), Acquire(TCB(task))>>)
                    /\ UNCHANGED <<stride, current, sched_cnt>>
               ELSE /\ stride' = [stride EXCEPT
                                    ![task] = StrideAfter(@, prior[task])]
                    /\ current' = task
                    /\ sched_cnt' = [sched_cnt EXCEPT ![task] = @ + 1]
                    /\ borrowed' = Held(run_tasks_borrows(task))
                    /\ pc' = "task"
            /\ UNCHANGED warn_cnt
       ELSE /\ warn_cnt < MaxWarn
            /\ warn_cnt' = warn_cnt + 1
            /\ borrowed' = Held(run_tasks_borrows(task))
            /\ pc' = "idle"
            /\ UNCHANGED <<task_status, start_time, picked, picked_status,
                           stride, current, sched_cnt>>
    /\ UNCHANGED <<policy, current_task, prior, now, prio_changed, found,
                   bad_prio_seen>>
    /\ UNCHANGED acct_vars

run_tasks == RunTasksLoop(MaxRounds)

\* schedule(): back to the idle control flow
schedule ==
    /\ borrowed' = Held(schedule_borrows)
    /\ pc' = "idle"

\* suspend in the Processor design: take the current task, Running -> Ready
proc_suspend_current_and_run_next ==
    /\ policy = "stride"
    /\ pc = "task"
    /\ current # None
    /\ task_status' = [task_status EXCEPT ![current] = "Ready"]
    /\ current' = None
    /\ schedule
    /\ UNCHANGED <<policy, current_task, stride, prior, start_time, now,
                   warn_cnt, sched_cnt, prio_changed, picked, picked_status,
                   found, bad_prio_seen>>
    /\ UNCHANGED acct_vars

\* exit in the Processor design: take the current task, Running -> Exited
proc_exit_current_and_run_next ==
    /\ policy = "stride"
    /\ pc = "task"
    /\ current # None
    /\ task_status' = [task_status EXCEPT ![current] = "Exited"]
    /\ current' = None
    /\ schedule
    /\ UNCHANGED <<policy, current_task, stride, prior, start_time, now,
                   warn_cnt, sched_cnt, prio_changed, picked, picked_status,
                   found, bad_prio_seen>>
    /\ UNCHANGED acct_vars

\* curr_set_priority(prio): take_current_task, write prior, restore_current_task
SetPriority(args) ==
    /\ policy = "stride"
    /\ pc = "task"
    /\ current # None
    /\ \E prio \in args :
          /\ prior' = [prior EXCEPT ![current] = AsUsize(prio)]
          /\ prio_changed' = [prio_changed EXCEPT
                                ![current] = @ \/ AsUsize(prio) # prior[current]]
          /\ bad_prio_seen' = (bad_prio_seen \/ prio < 2)
    /\ current' = restored_cell(current)
    /\ borrowed' = Held(take_restore_borrows(current))
    /\ UNCHANGED <<policy, pc, task_status, current_task, stride, start_time,
                   now, warn_cnt, sched_cnt, picked, picked_status, found>>
    /\ UNCHANGED acct_vars

curr_set_priority == SetPriority(PrioArgs)

---------------------------------------------------------------------------
(* The clock *)

Tick ==
    /\ pc \in {"boot", "task", "idle"}
    /\ now < MaxTime
    /\ now' = now + 1
    /\ UNCHANGED <<policy, pc, task_status, current_task, current, stride,
                   prior, start_time, warn_cnt, sched_cnt, prio_changed,
                   picked, picked_status, found, bad_prio_seen, borrowed>>
    /\ UNCHANGED acct_vars

---------------------------------------------------------------------------
(* Accessors of the current task *)

\* what the accessors below leave alone
sched_frame == <<policy, current_task, stride, prior, start_time, now, warn_cnt,
                 sched_cnt, prio_changed, picked, picked_status, found,
                 bad_prio_seen, fs_vars>>

\* counting one more accessor call
Called(c) ==
    /\ ncalls < MaxCalls
    /\ ncalls' = ncalls + 1
    /\ call' = c

\* counting one more access to the current-task cell
CalledCell(c) ==
    /\ ncalls < MaxCellCalls
    /\ ncalls' = ncalls + 1
    /\ call' = c

\* `*ti = TaskInfo { status, syscall_times, time }` for task t; a build with
\* overflow checks panics at the subtraction when the stamp is still -1
WriteInfo(t) ==
    \E overflow_checks \in BOOLEAN :
        IF overflow_checks /\ now < AsUsize(start_time[t])
        THEN /\ pc' = "halt"
             /\ info' = info
        ELSE /\ pc' = pc
             /\ info' = <<task_status[t], InfoSyscallTimes(syscall_times[t]),
                          WrappingSub(now, AsUsize(start_time[t]))>>

\* TaskManager::add_current_syscall_cnt
add_current_syscall_cnt ==
    /\ policy = "rr"
    /\ pc = "task"
    /\ \E syscall_id \in SyscallArgs :
          /\ Called(<<"add_current_syscall_cnt", syscall_id>>)
          /\ IF SyscallIndex(syscall_id) # 0
             THEN /\ syscall_times' = [syscall_times EXCEPT
                       ![current_task][SyscallIndex(syscall_id)] = @ + 1]
                  /\ borrowed' = Held(manager_access_borrows)
                  /\ pc' = pc
             ELSE /\ pc' = "halt"
                  /\ UNCHANGED <<syscall_times, borrowed>>
    /\ UNCHANGED sched_frame
    /\ UNCHANGED <<task_status, current, info, taken, observed, memory_set, ret>>

\* TaskManager::get_current_info
get_current_info ==
    /\ policy = "rr"
    /\ pc \in {"boot", "task"}
    /\ Called(<<"get_current_info">>)
    /\ WriteInfo(current_task)
    /\ borrowed' = Held(manager_access_borrows)
    /\ UNCHANGED sched_frame
    /\ UNCHANGED <<task_status, current, syscall_times, taken, observed,
                   memory_set, ret>>

\* add_current_syscall_cnt of the Processor design
proc_add_current_syscall_cnt ==
    /\ policy = "stride"
    /\ pc = "task"
    /\ \E syscall_id \in SyscallArgs :
          /\ Called(<<"add_current_syscall_cnt", syscall_id>>)
          /\ IF SyscallIndex(syscall_id) # 0 /\ current # None
             THEN /\ syscall_times' = [syscall_times EXCEPT
                       ![current][SyscallIndex(syscall_id)] = @ + 1]
                  /\ borrowed' = Held(take_restore_borrows(current))
                  /\ current' = restored_cell(current)
                  /\ pc' = pc
             ELSE \* unsupported id, or take_current_task().unwrap() on None
                  /\ pc' = "halt"
                  /\ UNCHANGED <<syscall_times, borrowed, current>>
    /\ UNCHANGED sched_frame
    /\ UNCHANGED <<task_status, info, taken, observed, memory_set, ret>>

\* get_current_info of the Processor design
proc_get_current_info ==
    /\ policy = "stride"
    /\ pc \in {"boot", "task"}
    /\ Called(<<"get_current_info">>)
    /\ IF current # None
       THEN /\ WriteInfo(current)
            /\ borrowed' = Held(get_info_borrows(current))
       ELSE \* current_task().unwrap() on None
            /\ pc' = "halt"
            /\ UNCHANGED <<info, borrowed>>
    /\ UNCHANGED sched_frame
    /\ UNCHANGED <<task_status, current, syscall_times, taken, observed,
                   memory_set, ret>>

\* take_current_task
take_current_task ==
    /\ policy = "stride"
    /\ pc = "task"
    /\ CalledCell(<<"take_current_task">>)
    /\ observed' = take_current(current)[1]
    /\ current' = take_current(current)[2]
    /\ taken' = IF take_current(current)[1] # None
                THEN take_current(current)[1] ELSE taken
    /\ borrowed' = Held(processor_access_borrows)
    /\ UNCHANGED sched_frame
    /\ UNCHANGED <<pc, task_status, syscall_times, info, memory_set, ret>>

\* restore_current_task(curr_task), with the task the caller took
restore_current_task ==
    /\ policy = "stride"
    /\ pc = "task"
    /\ taken # None
    /\ CalledCell(<<"restore_current_task", taken>>)
    /\ current' = taken
    /\ taken' = None
    /\ borrowed' = Held(processor_access_borrows)
    /\ UNCHANGED sched_frame
    /\ UNCHANGED <<pc, task_status, syscall_times, info, observed, memory_set,
                   ret>>

\* current_task() of the Processor design
proc_current_task ==
    /\ policy = "stride"
    /\ pc = "task"
    /\ CalledCell(<<"current_task">>)
    /\ observed' = current
    /\ borrowed' = Held(processor_access_borrows)
    /\ UNCHANGED sched_frame
    /\ UNCHANGED <<pc, task_status, current, syscall_times, info, taken,
                   memory_set, ret>>

\* curr_mmap(start_va, end_va, permission) of the Processor design
proc_curr_mmap ==
    /\ policy = "stride"
    /\ pc = "task"
    /\ \E start \in {PAGE_SIZE, 2 * PAGE_SIZE}, len \in {PAGE_SIZE} :
          /\ Called(<<"curr_mmap", start, len>>)
          /\ IF current # None
             THEN /\ memory_set' = [memory_set EXCEPT ![current] =
                       insert_framed_area(@, start, start + len, 2 + PERM_U)]
                  /\ borrowed' = Held(take_restore_borrows(current))
                  /\ current' = restored_cell(current)
                  /\ pc' = pc
             ELSE \* take_current_task().unwrap() on None
                  /\ pc' = "halt"
                  /\ UNCHANGED <<memory_set, borrowed, current>>
    /\ UNCHANGED sched_frame
    /\ UNCHANGED <<task_status, syscall_times, info, taken, observed, ret>>

curr_set_priority_wide == SetPriority(WidePrioArgs)

InitStride ==
    /\ policy = "stride"
    /\ pc = "boot"
    /\ InitTasks

run_tasks_acc == RunTasksLoop(AccRounds)

\* both designs with syscall accounting and info queries
NextAcc ==
    \/ run_first_task
    \/ suspend_current_and_run_next
    \/ exit_current_and_run_next
    \/ run_tasks_acc
    \/ proc_suspend_current_and_run_next
    \/ proc_exit_current_and_run_next
    \/ add_current_syscall_cnt
    \/ get_current_info
    \/ proc_add_current_syscall_cnt
    \/ proc_get_current_info
    \/ Tick

SpecAcc == Init /\ [][NextAcc]_vars

\* the Processor design with direct accesses to the current-task cell
NextCell ==
    \/ run_tasks_acc
    \/ proc_suspend_current_and_run_next
    \/ proc_exit_current_and_run_next
    \/ take_current_task
    \/ restore_current_task
    \/ proc_current_task
    \/ proc_add_current_syscall_cnt
    \/ curr_set_priority_wide
    \/ proc_curr_mmap

SpecCell == InitStride /\ [][NextCell]_vars

run_tasks_stride == RunTasksLoop(StrideRounds)

\* the Processor design with every operation a running task can request
NextStride ==
    \/ run_tasks_stride
    \/ proc_suspend_current_and_run_next
    \/ proc_exit_current_and_run_next
    \/ curr_set_priority_wide
    \/ proc_add_current_syscall_cnt
    \/ proc_curr_mmap

SpecStride == InitStride /\ [][NextStride]_vars

---------------------------------------------------------------------------
(* mmap / munmap of the current task (round-robin design) *)

\* what curr_mmap and curr_munmap leave alone
mem_frame == <<pc, task_status, current, syscall_times, info, taken, observed>>

\* counting one more mmap / munmap call
CalledMem(c) ==
    /\ ncalls < MaxMemCalls
    /\ ncalls' = ncalls + 1
    /\ call' = c

\* curr_mmap(start, len, port)
curr_mmap ==
    /\ policy = "rr"
    /\ pc = "task"
    /\ \E start \in StartArgs, len \in LenArgs, port \in PortArgs :
          /\ CalledMem(<<"curr_mmap", start, len, port, current_task>>)
          /\ IF \/ ~va_aligned(start)
                \/ port_illegal_bits(port)
                \/ port_no_access(port)
                \/ curr_vpnrange_exist_map(memory_set[current_task],
                                           va_floor(start), va_ceil(start + len))
             THEN /\ ret' = 0 - 1
                  /\ memory_set' = memory_set
             ELSE /\ ret' = 0
                  /\ memory_set' = [memory_set EXCEPT ![current_task] =
                        insert_framed_area(@, start, start + len,
                                           port_permission(port))]
    /\ borrowed' = Held(manager_access_borrows)
    /\ UNCHANGED sched_frame
    /\ UNCHANGED mem_frame

\* curr_munmap(start, len)
curr_munmap ==
    /\ policy = "rr"
    /\ pc = "task"
    /\ \E start \in StartArgs, len \in LenArgs :
          /\ CalledMem(<<"curr_munmap", start, len, current_task>>)
          /\ IF \/ ~va_aligned(start)
                \/ curr_vpnrange_exist_unmap(memory_set[current_task],
                                             va_floor(start), va_ceil(start + len))
             THEN /\ ret' = 0 - 1
                  /\ memory_set' = memory_set
             ELSE /\ ret' = remove_area_with_start_vpn(
                                memory_set[current_task], va_floor(start))[2]
                  /\ memory_set' = [memory_set EXCEPT ![current_task] =
                        remove_area_with_start_vpn(@, va_floor(start))[1]]
    /\ borrowed' = Held(manager_access_borrows)
    /\ UNCHANGED sched_frame
    /\ UNCHANGED mem_frame

InitManager ==
    /\ policy = "rr"
    /\ pc = "boot"
    /\ InitTasks

NextMem ==
    \/ run_first_task
    \/ suspend_current_and_run_next
    \/ curr_mmap
    \/ curr_munmap

SpecMem == InitManager /\ [][NextMem]_vars

(* The directory operations of easy-fs *)

\* what the directory operations leave alone
fs_frame == <<policy, task_status, current_task, current, stride, prior,
              start_time, now, warn_cnt, sched_cnt, prio_changed, picked,
              picked_status, found, bad_prio_seen, borrowed, syscall_times,
              info, taken, observed, memory_set>>

\* counting one more directory operation
CalledFs(c) ==
    /\ pc # "halt"
    /\ ncalls < MaxFsCalls
    /\ ncalls' = ncalls + 1
    /\ call' = c

\* the file system becomes fs
FsBecomes(fs) ==
    /\ dirents' = fs.dirents
    /\ link_cnt' = fs.link_cnt
    /\ inode_alloc' = fs.inode_alloc
    /\ data_blocks' = fs.data_blocks

\* Inode::create(name); Some(_) is 0, None is -1.  alloc_inode panics when
\* the bitmap is full.
create ==
    \E name \in FileNames :
        /\ CalledFs(<<"create", name>>)
        /\ IF find_inode_id(dirents, name) # NoEntry
           THEN /\ ret' = 0 - 1
                /\ UNCHANGED <<pc, fs_vars>>
           ELSE IF InodeIds \ inode_alloc = {}
           THEN /\ pc' = "halt"
                /\ UNCHANGED <<ret, fs_vars>>
           ELSE LET new_inode_id == alloc_inode(FsState)
                IN  /\ FsBecomes(append_dirent(initialize(FsState, new_inode_id),
                                               name, new_inode_id))
                    /\ ret' = 0
                    /\ pc' = pc
        /\ UNCHANGED fs_frame

\* Inode::linkat(old_name, new_name)
linkat ==
    \E old_name \in FileNames, new_name \in FileNames :
        /\ CalledFs(<<"linkat", old_name, new_name>>)
        /\ IF old_name = new_name
           THEN /\ ret' = 0 - 1
                /\ UNCHANGED fs_vars
           ELSE LET found_id == find_inode_id(dirents, old_name)
                    old_inode_id == IF found_id # NoEntry THEN AsI32(found_id)
                                    ELSE 0 - 1
                IN  IF old_inode_id # 0 - 1
                    THEN /\ FsBecomes(append_dirent(FsState, new_name,
                                                    old_inode_id))
                         /\ ret' = 0
                    ELSE /\ ret' = 0 - 1
                         /\ UNCHANGED fs_vars
        /\ UNCHANGED <<pc, fs_frame>>

\* Inode::unlinkat(name)
unlinkat ==
    \E name \in FileNames :
        /\ CalledFs(<<"unlinkat", name>>)
        /\ LET dirent_id == FindValidFrom(dirents, name, 1)
           IN  IF dirent_id # 0
               THEN /\ FsBecomes(remove_dirent(FsState, dirent_id))
                    /\ ret' = 0
               ELSE /\ ret' = 0 - 1
                    /\ UNCHANGED fs_vars
        /\ UNCHANGED <<pc, fs_frame>>

\* Inode::find(name) followed by Inode::write_at on the file it returns:
\* the first block written makes increase_size allocate a data block
write_at ==
    \E name \in FileNames :
        /\ find_inode_id(dirents, name) \in InodeIds
        /\ CalledFs(<<"write_at", name>>)
        /\ data_blocks' = [data_blocks EXCEPT ![find_inode_id(dirents, name)] =
                               IF @ < 1 THEN 1 ELSE @]
        /\ ret' = 1
        /\ UNCHANGED <<pc, dirents, link_cnt, inode_alloc, fs_frame>>

NextFs ==
    \/ create
    \/ linkat
    \/ unlinkat
    \/ write_at

SpecFs == InitManager /\ [][NextFs]_vars

Next ==
    \/ run_first_task
    \/ suspend_current_and_run_next
    \/ exit_current_and_run_next
    \/ run_tasks
    \/ proc_suspend_current_and_run_next
    \/ proc_exit_current_and_run_next
    \/ curr_set_priority
    \/ Tick

Spec == Init /\ [][Next]_vars

---------------------------------------------------------------------------
(* The three-task priority scenario of spec.md section 8: tasks 0..2 are   *)
(* Ready with priorities {2, 4, 4} in some order and stride 0; every       *)
(* selected task suspends.  Table slots beyond the third hold tasks that   *)
(* have exited.                                                            *)

ScenarioTasks == {i \in Tasks : i < 3}

InitScenario ==
    /\ policy = "stride"
    /\ pc = "boot"
    /\ task_status = [i \in Tasks |-> IF i \in ScenarioTasks THEN "Ready" ELSE "Exited"]
    /\ current_task = 0
    /\ current = None
    /\ stride = [i \in Tasks |-> 0]
    /\ \E low \in ScenarioTasks : prior = [i \in Tasks |-> IF i = low THEN 2 ELSE 4]
    /\ start_time = [i \in Tasks |-> UNSET]
    /\ now = 0
    /\ warn_cnt = 0
    /\ sched_cnt = [i \in Tasks |-> 0]
    /\ prio_changed = [i \in Tasks |-> FALSE]
    /\ picked = None
    /\ picked_status = "none"
    /\ found = None
    /\ bad_prio_seen = FALSE
    /\ borrowed = {}
    /\ InitAcct

run_tasks_scenario == RunTasksLoop(ScenarioRounds)

NextScenario ==
    \/ run_tasks_scenario
    \/ proc_suspend_current_and_run_next
    \/ Tick

SpecScenario == InitScenario /\ [][NextScenario]_vars

---------------------------------------------------------------------------
(* find_next_task as a function of the task table and current_task *)

InitFind ==
    /\ policy = "rr"
    /\ pc = "find"
    /\ task_status \in [Tasks -> Status]
    /\ current_task \in Tasks
    /\ current = None
    /\ stride = [i \in Tasks |-> 0]
    /\ prior = [i \in Tasks |-> DEFAULT_PRIORITY]
    /\ start_time = [i \in Tasks |-> UNSET]
    /\ now = 0
    /\ warn_cnt = 0
    /\ sched_cnt = [i \in Tasks |-> 0]
    /\ prio_changed = [i \in Tasks |-> FALSE]
    /\ picked = None
    /\ picked_status = "none"
    /\ found = None
    /\ bad_prio_seen = FALSE
    /\ borrowed = {}
    /\ InitAcct

ApplyFind ==
    /\ pc = "find"
    /\ found' = find_next_task(task_status, current_task)
    /\ borrowed' = Held(find_next_task_borrows)
    /\ pc' = "found"
    /\ UNCHANGED <<policy, task_status, current_task, current, stride, prior,
                   start_time, now, warn_cnt, sched_cnt, prio_changed, picked,
                   picked_status, bad_prio_seen>>
    /\ UNCHANGED acct_vars

NextFind == ApplyFind

SpecFind == InitFind /\ [][NextFind]_vars

---------------------------------------------------------------------------
(* Properties *)

RunningTasks == {i \in Tasks : task_status[i] = "Running"}
ReadyTasks == {i \in Tasks : task_status[i] = "Ready"}
ExitedTasks == {i \in Tasks : task_status[i] = "Exited"}

\* C1: in every state reachable from run_first_task or run_tasks by suspend
\* and exit calls, at most one task control block has status Running.
C1_AtMostOneRunning == Cardinality(RunningTasks) <= 1

\* a round-robin state after an exit and a suspend: the third task runs,
\* the first has exited, the second was started and is Ready again
C1_Witness ==
    /\ policy = "rr"
    /\ task_status = [i \in Tasks |->
                        IF i = 0 THEN "Exited" ELSE IF i = 2 THEN "Running" ELSE "Ready"]
    /\ start_time[1] # UNSET

\* C2: the scheduler marks Running only a task whose status is Ready at the
\* moment it is selected (round robin and stride alike).
C2_OnlyReadySelected == picked_status \in {"none", "Ready"}

\* a stride state where the selected task was Ready when picked, while
\* another task had exited and a third was waiting
C2_Witness ==
    /\ policy = "stride"
    /\ picked # None
    /\ picked_status = "Ready"
    /\ task_status[picked] = "Running"
    /\ ExitedTasks # {}
    /\ ReadyTasks # {}

\* C3: Exited is terminal: a task whose status is Exited keeps that status
\* in every later state, so it is never marked Running (selected) again.
C3_ExitedTerminal ==
    [][\A i \in Tasks : task_status[i] = "Exited" => task_status'[i] = "Exited"]_vars

\* two tasks have exited one after the other and the survivor was selected
\* after the first exit
C3_Witness ==
    /\ Cardinality(ExitedTasks) = 2
    /\ Cardinality(RunningTasks) = 1
    /\ picked \in RunningTasks

\* C4: once selection finds no Ready task (every task has exited) the
\* scheduling loop halts for good: the next thing it does is stop, it does
\* not iterate again.
C4_HaltsOnExhaustion ==
    [][(\A i \in Tasks : task_status[i] = "Exited") => pc' = "halt"]_vars

\* C5: find_next_task returns the first Ready position in the order
\* (c+1) mod N, ..., (c+N) mod N, and None exactly when no task is Ready;
\* position c itself is examined last.
C5_FirstReadyAfterCurrent ==
    pc = "found" =>
        /\ (found = None) <=> (\A i \in Tasks : task_status[i] # "Ready")
        /\ found # None =>
             \E k \in 1 .. NumApp :
                /\ found = (current_task + k) % NumApp
                /\ task_status[found] = "Ready"
                /\ \A j \in 1 .. (k - 1) :
                      task_status[(current_task + j) % NumApp] # "Ready"
        /\ found = current_task =>
             \A i \in Tasks \ {current_task} : task_status[i] # "Ready"

\* the scan wrapped around and came back to the current position
C5_Witness ==
    /\ pc = "found"
    /\ current_task = 1
    /\ found = 1
    /\ task_status[0] = "Exited"
    /\ task_status[2] = "Running"

\* a step in which run_tasks selects a task
SelectionStep ==
    /\ policy = "stride"
    /\ pc \in {"boot", "idle"}
    /\ pc' \in {"task", "halt"}

\* C6: the task run_tasks selects is, among the Ready tasks, one of least
\* stride, and among those of least stride the one at the lowest position.
C6_LeastStrideLowestId ==
    [][SelectionStep =>
         /\ picked' \in ReadyTasks
         /\ \A j \in ReadyTasks :
               \/ stride[picked'] < stride[j]
               \/ stride[picked'] = stride[j] /\ picked' <= j]_vars

\* task 1 was preferred to the Ready task 0 because task 0 had already run
C6_Witness ==
    /\ policy = "stride"
    /\ pc = "task"
    /\ current = 1
    /\ task_status[0] = "Ready"
    /\ task_status[2] = "Ready"
    /\ stride[0] > 0
    /\ stride[2] = 0

\* C7: a task scheduled k times whose priority stayed p has stride
\* k * (BIG_STRIDE / p), truncating division, whatever the others did.
C7_StrideLaw ==
    \A i \in Tasks :
        ~prio_changed[i] => stride[i] = sched_cnt[i] * (BIG_STRIDE \div prior[i])

\* a task of unchanged priority ran twice while another changed its
\* priority and one exited
C7_Witness ==
    \E i \in Tasks :
        /\ ~prio_changed[i]
        /\ sched_cnt[i] >= 2
        /\ \E j \in Tasks : prio_changed[j]
        /\ ExitedTasks # {}

MaxStride == CHOOSE s \in {stride[i] : i \in Tasks} : \A i \in Tasks : stride[i] <= s
MinStride == CHOOSE s \in {stride[i] : i \in Tasks} : \A i \in Tasks : s <= stride[i]

\* no task has exited and all tasks have the same positive priority p
EqualPriorities(p) ==
    /\ policy = "stride"
    /\ p > 0
    /\ ExitedTasks = {}
    /\ \A i \in Tasks : prior[i] = p

\* C8, as stated: whenever no task has exited and all priorities are
\* equal, the largest and the smallest stride differ by at most
\* BIG_STRIDE / priority.  (Checked for runs in which every set_priority
\* argument was at least 2.)
C8_SpreadAtMostOneIncrement ==
    (~bad_prio_seen /\ EqualPriorities(prior[0]))
        => MaxStride - MinStride <= BIG_STRIDE \div prior[0]

\* C8, amended: a window with no exit and equal priorities that begins
\* with the strides within one increment of each other keeps them within
\* one increment.
C8_SpreadPreserved ==
    [][(/\ EqualPriorities(prior[0])
        /\ MaxStride - MinStride <= BIG_STRIDE \div prior[0]
        /\ EqualPriorities(prior[0])'
        /\ prior'[0] = prior[0])
       => (MaxStride - MinStride)' <= BIG_STRIDE \div prior[0]]_vars

\* every task has run, the first one twice, all still at the same priority
C8_Witness ==
    /\ EqualPriorities(prior[0])
    /\ \A i \in Tasks : sched_cnt[i] >= 1
    /\ sched_cnt[0] = 2
    /\ MaxStride - MinStride = BIG_STRIDE \div prior[0]

\* the scenario's task of priority 2
LowTask == CHOOSE i \in ScenarioTasks : prior[i] = 2

ScenarioStrideLaw ==
    \A i \in ScenarioTasks : stride[i] = sched_cnt[i] * (BIG_STRIDE \div prior[i])

\* C9, as stated: the priority-2 task is selected in exactly 2 of the
\* first 3 rounds, and after 6 rounds every stride is
\* (times selected) * (BIG_STRIDE / priority).
C9_LowTaskTwiceInThree ==
    /\ Rounds = 3 => sched_cnt[LowTask] = 2
    /\ Rounds = 6 => ScenarioStrideLaw

\* C9, amended: the priority-2 task is selected in exactly 1 of the first
\* 3 rounds (its stride grows twice as fast as the others'), and after 6
\* rounds every stride is (times selected) * (BIG_STRIDE / priority).
C9_LowTaskOnceInThree ==
    /\ Rounds = 3 => sched_cnt[LowTask] = 1
    /\ Rounds = 6 => ScenarioStrideLaw

\* six rounds have been run, the sixth task has suspended, and every task
\* of the scenario has had a turn
C9_Witness ==
    /\ Rounds = 6
    /\ pc = "idle"
    /\ \A i \in ScenarioTasks : sched_cnt[i] >= 1

\* C10: set_priority never leaves a task with a priority below 2 (a value
\* below 2, negative ones included, is rejected), so run_tasks never
\* divides by a zero priority.
C10_PriorityAtLeastTwo ==
    \A i \in Tasks : prior[i] >= 2 /\ prior[i] < USIZE_MOD \div 2


---------------------------------------------------------------------------
\* C11: a task's start_time stays unset (-1) as long as the task has not
\* become Running, is written with the clock value at its first transition
\* to Running, and is never written again; run_first_task finding the stamp
\* of task 0 already set stops the kernel.
C11_StartTimeWrittenOnce ==
    [][(\A i \in Tasks :
           /\ start_time[i] # UNSET => start_time'[i] = start_time[i]
           /\ (start_time[i] = UNSET /\ task_status'[i] = "Running")
                  => start_time'[i] = now
           /\ (start_time[i] = UNSET /\ task_status'[i] # "Running")
                  => start_time'[i] = UNSET
           /\ start_time[i] = UNSET => task_status[i] # "Running")
       /\ ((policy = "rr" /\ pc = "boot" /\ pc' # "boot" /\ start_time[0] # UNSET)
              => pc' = "halt")]_vars

\* a task that was stamped at time 0 is running again at a later time
C11_Witness ==
    \E i \in Tasks :
        /\ sched_cnt[i] >= 2
        /\ task_status[i] = "Running"
        /\ start_time[i] # UNSET
        /\ start_time[i] < now


\* number of positions the round-robin scan examines before position i
ScanDistance(i) == (i - current_task - 1 + NumApp) % NumApp

\* C19 (as stated): when more than one task is Ready, find_next_task
\* returns the Ready task with the lowest table position.
C19_LowestPositionWins ==
    (pc = "found" /\ Cardinality(ReadyTasks) > 1) =>
        /\ found \in ReadyTasks
        /\ \A j \in ReadyTasks : found <= j

\* C19 (amended): when more than one task is Ready, find_next_task returns
\* the Ready task nearest after current_task in cyclic table order; that is
\* the lowest Ready position above current_task if there is one, and the
\* lowest Ready position of the table otherwise.
C19_NearestAfterCurrentWins ==
    (pc = "found" /\ Cardinality(ReadyTasks) > 1) =>
        /\ found \in ReadyTasks
        /\ \A j \in ReadyTasks : ScanDistance(found) <= ScanDistance(j)
        /\ IF \E j \in ReadyTasks : j > current_task
           THEN found > current_task
                /\ \A j \in ReadyTasks : j > current_task => found <= j
           ELSE \A j \in ReadyTasks : found <= j

\* Ready tasks on both sides of the current position: the upper one wins
C19_Witness ==
    /\ pc = "found"
    /\ current_task = 1
    /\ task_status[0] = "Ready"
    /\ task_status[2] = "Ready"
    /\ found = 2


\* C15: whenever control has passed through __switch (a task is executing,
\* or the idle loop was resumed by schedule), no exclusive borrow of the
\* TaskManager cell, of the Processor cell or of any TCB is alive.
C15_NoBorrowAcrossSwitch ==
    pc \in {"task", "idle"} => borrowed = {}

\* a task entered through at least two context switches is executing
C15_Witness ==
    /\ pc = "task"
    /\ borrowed = {}
    /\ \/ policy = "stride" /\ Rounds >= 2 /\ current # None
       \/ policy = "rr" /\ current_task = 2 /\ task_status[1] = "Ready"


\* C20: a task's stride changes only in the step in which run_tasks grants
\* the task a quantum; in that step it grows by BIG_STRIDE / priority and
\* ends strictly larger than it was; suspend, exit, set_priority, syscall
\* accounting and mmap leave every stride as it is.
C20_StrideGrowsOnlyOnGrant ==
    [][\A i \in Tasks :
          IF sched_cnt'[i] = sched_cnt[i] + 1
          THEN /\ stride'[i] = stride[i] + (BIG_STRIDE \div prior[i])
               /\ stride'[i] > stride[i]
          ELSE stride'[i] = stride[i]]_vars


\* a step that is one accessor call of the given name
CallStep(name) ==
    /\ ncalls' = ncalls + 1
    /\ call'[1] = name

\* C14: from take_current_task until the matching restore_current_task the
\* Processor's current-task cell is empty; current_task and
\* take_current_task calls made in between return None; after
\* restore_current_task(t) the cell holds t.
C14_CellEmptyBetweenTakeAndRestore ==
    [][/\ taken # None => current = None
       /\ taken' # None => current' = None
       /\ (taken # None /\ (CallStep("current_task") \/ CallStep("take_current_task")))
             => observed' = None
       /\ CallStep("restore_current_task")
             => (call'[2] = taken /\ current' = call'[2])]_vars

\* a task was taken, the cell was read as empty, and the task was restored
C14_Witness ==
    /\ call[1] = "restore_current_task"
    /\ current = call[2]
    /\ current # None
    /\ observed = None
    /\ taken = None


\* the task an accessor call acts on
CurrentOf == IF policy = "rr" THEN current_task ELSE current

\* C13: add_current_syscall_cnt(id) with a tracked id adds exactly 1 to the
\* counter of that id on the current task and changes no other counter of
\* any task; with an untracked id the kernel stops and no counter changes.
C13_CountsExactlyOne ==
    [][(CallStep("add_current_syscall_cnt") /\ CurrentOf # None) =>
          IF \E k \in 1 .. Len(SYSCALL_TONG) : SYSCALL_TONG[k] = call'[2]
          THEN /\ pc' = pc
               /\ \A t \in Tasks : \A k \in 1 .. Len(SYSCALL_TONG) :
                     syscall_times'[t][k] = syscall_times[t][k] +
                        (IF t = CurrentOf /\ SYSCALL_TONG[k] = call'[2]
                         THEN 1 ELSE 0)
          ELSE /\ pc' = "halt"
               /\ syscall_times' = syscall_times]_vars

\* a task counted two calls of one id
C13_Witness ==
    /\ call = <<"add_current_syscall_cnt", 124>>
    /\ \E t \in Tasks : syscall_times[t] = <<0, 0, 2>>
    /\ pc = "task"

\* an untracked id stopped the kernel after a counted call
C13_WitnessUntracked ==
    /\ call = <<"add_current_syscall_cnt", 7>>
    /\ pc = "halt"
    /\ \E t \in Tasks : syscall_times[t] = <<1, 0, 0>>


\* C12: get_current_info on a task whose start_time is still unset is
\* rejected (the kernel stops, nothing is written to the TaskInfo cell);
\* whenever the call returns, the elapsed time written is the clock value
\* minus the task's start_time.
C12_UnsetQueryRejected ==
    [][(CallStep("get_current_info") /\ CurrentOf # None) =>
          IF start_time[CurrentOf] = UNSET
          THEN pc' = "halt" /\ info' = info
          ELSE pc' = pc /\ info'[3] = now - start_time[CurrentOf]]_vars


\* page p lies in some map area of task t
PageMapped(t, p) == \E a \in memory_set[t] : a[1] <= p /\ p < a[2]
\* page p lies in [floor(start), ceil(start + len))
InRange(p, start, len) ==
    /\ start \div PAGE_SIZE <= p
    /\ p * PAGE_SIZE < start + len

\* C16: curr_mmap(start, len, port) returns a negative value and leaves
\* every address space as it is when start is not page-aligned, or the low
\* three bits of port are all zero, or port has a bit above the low three,
\* or some page of the range is already mapped for the current task; in
\* every other case it returns 0 and adds the area covering the range to
\* the current task's address space, and to no other.
C16_MmapFailsCleanOrInserts ==
    [][CallStep("curr_mmap") =>
          IF \/ call'[2] % PAGE_SIZE # 0
             \/ call'[4] % 8 = 0
             \/ call'[4] >= 8
             \/ \E p \in Pages : InRange(p, call'[2], call'[3])
                                   /\ PageMapped(current_task, p)
          THEN ret' < 0 /\ memory_set' = memory_set
          ELSE /\ ret' = 0
               /\ \A t \in Tasks \ {current_task} :
                     memory_set'[t] = memory_set[t]
               /\ memory_set'[current_task] \ memory_set[current_task]
                     \subseteq {<<call'[2] \div PAGE_SIZE,
                                  (call'[2] + call'[3] + PAGE_SIZE - 1) \div PAGE_SIZE,
                                  call'[4] * 2 + PERM_U>>}
               /\ memory_set[current_task] \subseteq memory_set'[current_task]
               /\ \A p \in Pages :
                     PageMapped(current_task, p)' =
                        (PageMapped(current_task, p)
                         \/ InRange(p, call'[2], call'[3]))]_vars

\* pages 1 and 2 were mapped by one call; a later request for page 2 failed
C16_Witness ==
    /\ call = <<"curr_mmap", 2 * PAGE_SIZE, PAGE_SIZE, 3, current_task>>
    /\ ret < 0
    /\ <<1, 3, 22>> \in memory_set[current_task]

\* C17: curr_munmap(start, len) returns a negative value and leaves every
\* address space as it is when start is not page-aligned or some page of
\* the range is not mapped for the current task; otherwise it removes from
\* the current task's address space the areas that begin at the start page,
\* and nothing else.
C17_MunmapFailsCleanOrRemoves ==
    [][CallStep("curr_munmap") =>
          IF \/ call'[2] % PAGE_SIZE # 0
             \/ \E p \in Pages : InRange(p, call'[2], call'[3])
                                   /\ ~PageMapped(current_task, p)
          THEN ret' < 0 /\ memory_set' = memory_set
          ELSE /\ \A t \in Tasks \ {current_task} :
                     memory_set'[t] = memory_set[t]
               /\ \A a \in memory_set[current_task] :
                     (a \in memory_set'[current_task])
                        <=> (a[1] # call'[2] \div PAGE_SIZE)
               /\ memory_set'[current_task] \subseteq memory_set[current_task]]_vars

\* a two-page area was mapped and then unmapped by one call
C17_Witness ==
    /\ call = <<"curr_munmap", PAGE_SIZE, PAGE_SIZE + 1, current_task>>
    /\ ret = 0
    /\ ~PageMapped(current_task, 1)
    /\ ~PageMapped(current_task, 2)
    /\ PageMapped(current_task, 0)

\* C18: when curr_mmap(start, len, port) has succeeded, a curr_munmap(start,
\* len) that follows it on the same task succeeds, and afterwards every page
\* of the range is unmapped, as before the mmap, and every page outside the
\* range is mapped exactly if it was before.
C18_MmapMunmapRoundTrip ==
    [][(/\ CallStep("curr_munmap")
        /\ call[1] = "curr_mmap"
        /\ ret = 0
        /\ call[5] = current_task
        /\ call'[2] = call[2]
        /\ call'[3] = call[3]) =>
          /\ ret' = 0
          /\ \A p \in Pages :
                PageMapped(current_task, p)' =
                   (PageMapped(current_task, p) /\ ~InRange(p, call[2], call[3]))]_vars


---------------------------------------------------------------------------
\* a step in which the running task suspends (either design)
SuspendStep ==
    /\ pc = "task"
    /\ CurrentOf # None
    /\ ncalls' = ncalls
    /\ now' = now
    /\ IF policy = "rr"
       THEN pc' = "task" /\ task_status'[current_task] # "Exited"
       ELSE pc' = "idle" /\ task_status'[current] = "Ready"

\* the accounting fields of task i are left as they are
AccountingKept(i) ==
    /\ prior'[i] = prior[i]
    /\ stride'[i] = stride[i]
    /\ start_time'[i] = start_time[i]
    /\ syscall_times'[i] = syscall_times[i]
    /\ memory_set'[i] = memory_set[i]

\* C21 (as stated): a suspend changes only the status of the suspending
\* task (Running -> Ready); its priority, stride, start_time and syscall
\* counters and every field of every other task stay as they are; a task
\* that is not running keeps its counters and start_time until it runs.
C21_SuspendChangesOnlyOwnStatus ==
    [][/\ SuspendStep =>
             /\ task_status'[CurrentOf] = "Ready"
             /\ \A i \in Tasks : AccountingKept(i)
             /\ \A i \in Tasks \ {CurrentOf} : task_status'[i] = task_status[i]
       /\ \A i \in Tasks :
             (task_status[i] = "Ready" /\ start_time[i] # UNSET) =>
                (syscall_times'[i] = syscall_times[i]
                 /\ start_time'[i] = start_time[i])]_vars

\* C21 (amended): as above, except that in the round-robin design the same
\* call dispatches the next Ready task: that task (the suspending task
\* itself when no other is Ready) becomes Running, and its start_time is
\* stamped if it never ran.
C21_SuspendKeepsAccounting ==
    [][/\ SuspendStep =>
             /\ task_status'[CurrentOf] =
                   (IF policy = "rr" /\ current_task' = current_task
                    THEN "Running" ELSE "Ready")
             /\ policy = "rr" =>
                   /\ task_status'[current_task'] = "Running"
                   /\ task_status[current_task'] = "Ready"
                        \/ current_task' = current_task
                   /\ (current_task' = current_task) => (ReadyTasks = {})
             /\ \A i \in Tasks :
                   /\ prior'[i] = prior[i]
                   /\ stride'[i] = stride[i]
                   /\ syscall_times'[i] = syscall_times[i]
                   /\ memory_set'[i] = memory_set[i]
                   /\ start_time'[i] =
                         (IF policy = "rr" /\ i = current_task'
                             /\ start_time[i] = UNSET
                          THEN now ELSE start_time[i])
             /\ \A i \in Tasks \ {CurrentOf} :
                   (policy = "stride" \/ i # current_task')
                      => task_status'[i] = task_status[i]
       /\ \A i \in Tasks :
             (task_status[i] = "Ready" /\ start_time[i] # UNSET) =>
                (syscall_times'[i] = syscall_times[i]
                 /\ start_time'[i] = start_time[i])]_vars

\* a task that counted a syscall, suspended and was dispatched again, with
\* its counter and its start_time as they were
C21_Witness ==
    /\ policy = "rr"
    /\ pc = "task"
    /\ current_task = 0
    /\ task_status = [i \in Tasks |-> IF i = 0 THEN "Running" ELSE "Exited"]
    /\ syscall_times[0] = <<1, 0, 0>>
    /\ start_time[0] = 0
    /\ now > 0
    /\ call = <<"add_current_syscall_cnt", 64>>


\* C23: in the round-robin design, whenever a task is executing (after
\* run_first_task and after every suspend or exit that found a next task)
\* current_task is a valid index, the task at that index is Running and no
\* other task is; get_current_info called by the executing task reports
\* the status Running.
C23_CurrentTaskIsTheRunningTask ==
    [][(policy = "rr" /\ pc' = "task") =>
          /\ current_task' \in Tasks
          /\ task_status'[current_task'] = "Running"
          /\ \A i \in Tasks \ {current_task'} : task_status'[i] # "Running"
          /\ (pc = "task" /\ CallStep("get_current_info"))
                => info'[1] = "Running"]_vars

\* the third task, dispatched after an exit, has queried its info
C23_Witness ==
    /\ policy = "rr"
    /\ pc = "task"
    /\ current_task = 2
    /\ task_status[0] = "Exited"
    /\ task_status[1] = "Ready"
    /\ call = <<"get_current_info">>
    /\ info[1] = "Running"


\* C24: add_current_syscall_cnt with a tracked id, curr_set_priority and
\* curr_mmap of the Processor design leave in the current-task cell the
\* task that was there before the call; add_current_syscall_cnt with an
\* untracked id stops the kernel with the cell as it was.
C24_AccessorsRestoreCurrent ==
    [][(policy = "stride" /\ pc = "task") =>
          /\ (CallStep("add_current_syscall_cnt") \/ CallStep("curr_mmap")
                 \/ prior' # prior)
                => (current' = current /\ taken' = taken)
          /\ (CallStep("add_current_syscall_cnt")
                 /\ \A k \in 1 .. Len(SYSCALL_TONG) : SYSCALL_TONG[k] # call'[2])
                => (pc' = "halt" /\ current' = current)]_vars

\* a running task changed its priority and then counted a syscall
C24_Witness ==
    /\ policy = "stride"
    /\ pc = "task"
    /\ call = <<"add_current_syscall_cnt", 64>>
    /\ current # None
    /\ task_status[current] = "Running"
    /\ syscall_times[current][1] = 1
    /\ prior[current] = BIG_STRIDE + 1


\* C25: a curr_munmap(start, len) of a non-empty range that returns 0
\* leaves every page of the range unmapped and every page outside the range
\* mapped exactly if it was, whether the range is a whole area, a part of
\* one area or several adjacent areas.
C25_MunmapUnmapsExactlyTheRange ==
    [][(CallStep("curr_munmap") /\ call'[3] > 0 /\ ret' = 0) =>
          \A p \in Pages :
             PageMapped(current_task, p)' =
                (PageMapped(current_task, p)
                 /\ ~InRange(p, call'[2], call'[3]))]_vars


\* positions from c to i in the cyclic order of the task table
CyclicDistance(i, c) == (i - c + NumApp) % NumApp

\* a step in which the running task of the round-robin design suspends or exits
YieldStep ==
    /\ policy = "rr"
    /\ pc = "task"
    /\ ncalls' = ncalls
    /\ now' = now

\* C26: round robin does not starve.  A Ready task lies d <= N - 1
\* positions after current_task; every suspend or exit of the running task
\* either dispatches it or leaves it Ready and strictly nearer, so it is
\* Running after at most N - 1 such calls.  A suspending task is dispatched
\* again at once only when no other task is Ready.
C26_ReadyTaskRunsWithinNMinusOne ==
    [][YieldStep =>
          /\ \A i \in Tasks :
                task_status[i] = "Ready" =>
                   /\ CyclicDistance(i, current_task) \in 1 .. (NumApp - 1)
                   /\ \/ task_status'[i] = "Running"
                      \/ /\ task_status'[i] = "Ready"
                         /\ pc' = "task"
                         /\ CyclicDistance(i, current_task')
                               < CyclicDistance(i, current_task)
          /\ (pc' = "task" /\ current_task' = current_task)
                => \A i \in Tasks : task_status[i] # "Ready"]_vars

\* every task has run and the first is running again: the last Ready task
\* waited N - 1 calls
C26_Witness ==
    /\ policy = "rr"
    /\ pc = "task"
    /\ current_task = 0
    /\ \A i \in Tasks : start_time[i] # UNSET
    /\ \A i \in Tasks \ {0} : task_status[i] = "Ready"

\* the first valid entry called `name`, and the inode it refers to
NameExists(name) == FindValidFrom(dirents, name, 1) # 0
InodeOfName(name) == DirEntry_inode_id(dirents[FindValidFrom(dirents, name, 1)])

\* the valid entries of the directory that refer to inode id
EntriesOf(ds, id) ==
    {i \in 1 .. Len(ds) : is_valid(ds[i]) /\ DirEntry_inode_id(ds[i]) = id}

\* the step adds exactly one entry, <<name, id>>, and touches no other
AddsOneEntry(name, id) ==
    \/ dirents' = Append(dirents, <<name, id>>)
    \/ \E i \in 1 .. Len(dirents) :
          /\ ~is_valid(dirents[i])
          /\ dirents' = [dirents EXCEPT ![i] = <<name, id>>]

\* C22: linkat(old_name, new_name) returns -1 and changes no directory
\* entry and no link count when old_name = new_name or when no valid entry
\* is called old_name; otherwise it returns 0 after adding one entry
\* new_name that refers to old_name's inode.
C22_LinkatFailsCleanOrAddsEntry ==
    [][CallStep("linkat") =>
          LET old_name == call'[2]
              new_name == call'[3]
          IN  IF old_name = new_name \/ ~NameExists(old_name)
              THEN /\ ret' = 0 - 1
                   /\ dirents' = dirents
                   /\ link_cnt' = link_cnt
              ELSE /\ ret' = 0
                   /\ AddsOneEntry(new_name, InodeOfName(old_name))]_vars

\* the link count of every file inode is the number of valid entries that
\* refer to it
LinkCountIsEntries ==
    \A id \in InodeIds : link_cnt[id] = Cardinality(EntriesOf(dirents, id))

\* an unlinkat of a name no valid entry carries returns -1 and changes
\* nothing; any other unlinkat returns 0
UnlinkatMissingFailsClean ==
    CallStep("unlinkat") =>
       IF NameExists(call'[2])
       THEN ret' = 0
       ELSE /\ ret' = 0 - 1
            /\ UNCHANGED fs_vars

\* the step is the unlinkat that removes the last entry of inode id
RemovesLastEntry(id) ==
    /\ CallStep("unlinkat")
    /\ NameExists(call'[2])
    /\ InodeOfName(call'[2]) = id
    /\ Cardinality(EntriesOf(dirents, id)) = 1

\* an inode and its data blocks are given back in exactly the steps that
\* remove the inode's last entry
DeallocExactlyAtLastUnlink ==
    \A id \in InodeIds :
       /\ RemovesLastEntry(id) =>
             /\ id \in inode_alloc
             /\ id \notin inode_alloc'
             /\ data_blocks'[id] = 0
             /\ link_cnt'[id] = 0
       /\ ~RemovesLastEntry(id) =>
             /\ id \in inode_alloc => id \in inode_alloc'
             /\ data_blocks'[id] >= data_blocks[id]

\* C27: after any sequence of create, linkat and unlinkat the link count of
\* every file inode equals the number of valid directory entries that refer
\* to it; unlinkat of a name with no valid entry returns -1 and changes
\* nothing; an inode's data blocks and the inode itself are deallocated
\* exactly when unlinkat removes its last entry.
C27_LinkCountMatchesEntries ==
    /\ []LinkCountIsEntries
    /\ [][UnlinkatMissingFailsClean /\ DeallocExactlyAtLastUnlink]_vars

\* the unlinkat of "a" gave back the first file while the second, created
\* later and linked once more, keeps its two links
C27_Witness ==
    /\ call = <<"unlinkat", "a">>
    /\ ret = 0
    /\ 1 \notin inode_alloc
    /\ 2 \in inode_alloc
    /\ link_cnt[2] = 2
    /\ Cardinality(EntriesOf(dirents, 2)) = 2

===========================================================================
